---- MODULE Spec2Model ----
(***************************************************************************)
(* AgentPass Python SDK: the REST client AgentPassClient                   *)
(* (packages/python-sdk/src/agentpass/client.py).                          *)
(*                                                                         *)
(* The client object holds base_url and token.  Every public method is one *)
(* synchronous call that builds one HTTP request through _request and      *)
(* turns the answer into a return value or an exception.  The state keeps  *)
(* the client's two fields and a record of the last call: the requests it  *)
(* put on the wire, the answer of the network, whether the body was handed *)
(* to the JSON parser, and how the call ended.                             *)
(***************************************************************************)
EXTENDS Integers, Sequences, FiniteSets, TLC

VARIABLES base_url, token, op, sent, resp, parsed, outcome, token_before,
          last_auth

vars == <<base_url, token, op, sent, resp, parsed, outcome, token_before,
          last_auth>>

-----------------------------------------------------------------------------
(* Python / JSON values.  json.loads yields None, str, dict or list here;   *)
(* every value is tagged with its kind so that values of different kinds   *)
(* are comparable.                                                         *)

None == [k |-> "null", v |-> "null"]
JStr(s) == [k |-> "str", v |-> s]
JObj(f) == [k |-> "obj", v |-> f]
JArr(s) == [k |-> "arr", v |-> s]

(* Python truth value of an object, as `if self.token` evaluates it. *)
Truthy(x) ==
    CASE x.k = "null" -> FALSE
      [] x.k = "str" -> x.v # ""
      [] x.k = "obj" -> DOMAIN x.v # {}
      [] x.k = "arr" -> Len(x.v) > 0

(* str(x) and the f-string rendering of a scalar: a str is itself, None is *)
(* "None".                                                                 *)
PyStr(x) ==
    CASE x.k = "str" -> x.v
      [] x.k = "null" -> "None"
      [] OTHER -> "<repr>"

-----------------------------------------------------------------------------
(* Response bodies the server may send, and json.loads on each of them.    *)

NotJson == [k |-> "invalid", v |-> "invalid"]

Passport == JObj(("id" :> JStr("ap_1")) @@ ("name" :> JStr("bot")))
Msg(id) == JObj("id" :> JStr(id))

json_loads(text) ==
    CASE text = "{\"token\":\"t1\"}" -> JObj("token" :> JStr("t1"))
      [] text = "{\"token\":\"\"}" -> JObj("token" :> JStr(""))
      [] text = "{\"token\":null}" -> JObj("token" :> None)
      [] text = "{\"id\":\"ap_1\",\"name\":\"bot\"}" -> Passport
      [] text = "{\"error\":\"Invalid credentials\"}" ->
            JObj("error" :> JStr("Invalid credentials"))
      [] text = "{\"error\":null}" -> JObj("error" :> None)
      [] text = "[{\"id\":\"m1\"},{\"id\":\"m2\"}]" -> JArr(<<Msg("m1"), Msg("m2")>>)
      [] text = "[]" -> JArr(<<>>)
      [] text = "\"error\"" -> JStr("error")
      [] text = "null" -> None
      [] OTHER -> NotJson

Texts ==
    { "{\"token\":\"t1\"}", "{\"token\":\"\"}", "{\"token\":null}",
      "{\"id\":\"ap_1\",\"name\":\"bot\"}",
      "{\"error\":\"Invalid credentials\"}", "{\"error\":null}",
      "[{\"id\":\"m1\"},{\"id\":\"m2\"}]", "[]", "\"error\"", "null",
      "Internal Server Error", "" }

-----------------------------------------------------------------------------
(* Strings that are cut or joined (URLs) are sequences of pieces, "/" being *)
(* a piece of its own, so that rstrip("/") and concatenation are computed.  *)

MaxTrailingSlashes == 2
TIMEOUT == 30
NO_CONTENT == 204

RECURSIVE Slashes(_)
Slashes(n) == IF n = 0 THEN <<>> ELSE <<"/">> \o Slashes(n - 1)

(* str.rstrip("/"): drop every trailing "/". *)
RECURSIVE rstrip(_)
rstrip(s) ==
    IF Len(s) > 0 /\ s[Len(s)] = "/" THEN rstrip(SubSeq(s, 1, Len(s) - 1)) ELSE s

DefaultBaseUrl == <<"https:", "/", "/", "api.agentpass.space">>
LocalBaseUrl == <<"http:", "/", "/", "localhost:3000">>

(* Arguments of the constructor. *)
BaseUrlArgs ==
    { h \o Slashes(n) : h \in {DefaultBaseUrl, LocalBaseUrl},
                        n \in 0..MaxTrailingSlashes }
TokenArgs == {None, JStr(""), JStr("t0")}

(* Arguments of the public methods. *)
Emails == {"a@b.com"}
Passwords == {"pw"}
Names == {"Agent"}
PassportIds == {"ap_1"}
PublicKeys == {"pubkey"}
Challenges == {"ch"}
Signatures == {"sig"}
Subjects == {"Hi"}
Bodies == {"Hello"}

-----------------------------------------------------------------------------
(* What requests.request can give back: a response (status, body text) or  *)
(* a transport failure raised as an exception.  A 1xx, 204 or 304 response  *)
(* has no body.                                                             *)

Statuses == {101, 200, 204, 300, 401, 500}
NoBody(status) == status < 200 \/ status = 204 \/ status = 304

Responses ==
    { r \in [kind : {"response"}, status : Statuses, text : Texts] :
        NoBody(r.status) => r.text = "" }
TransportFailure == [kind |-> "transport_error", status |-> 0, text |-> ""]
NetOutcomes == Responses \cup {TransportFailure}
NoAnswer == [kind |-> "none", status |-> 0, text |-> ""]

(* How a call ends: a returned value or a raised exception.  status_code is *)
(* 0 for exceptions that carry none.                                        *)
Return(v) ==
    [kind |-> "return", value |-> v, exc |-> "", message |-> "", status_code |-> 0]
Raise(e, msg, code) ==
    [kind |-> "raise", value |-> None, exc |-> e, message |-> msg, status_code |-> code]
NoCall == [kind |-> "none", value |-> None, exc |-> "", message |-> "", status_code |-> 0]

-----------------------------------------------------------------------------
(* AgentPassClient helpers. *)

ContentType == "Content-Type" :> "application/json"

_headers_ignore_flag(auth) ==
    IF Truthy(token)
    THEN ContentType @@ ("Authorization" :> ("Bearer " \o PyStr(token)))
    ELSE ContentType

_headers_bare_token(auth) ==
    IF auth /\ Truthy(token)
    THEN ContentType @@ ("Authorization" :> PyStr(token))
    ELSE ContentType

_headers(auth) ==
    IF auth /\ Truthy(token)
    THEN ContentType @@ ("Authorization" :> ("Bearer " \o PyStr(token)))
    ELSE ContentType

(* requests.Response.ok: the status is not a 4xx or 5xx. *)
ok_below_500(status) == status < 500

ok(status) == ~(400 <= status /\ status < 600)

(* The message of the AgentPassError: resp.json().get("error", body) when   *)
(* that does not raise, the body text otherwise, passed through str().      *)
error_message_raw(text) == text

error_message(text) ==
    LET j == json_loads(text)
    IN  IF j.k = "obj"
        THEN IF "error" \in DOMAIN j.v THEN PyStr(j.v["error"]) ELSE text
        ELSE text

(* The requests one call of requests.request puts on the wire. *)
issue_retry(req, net) ==
    IF net.kind = "transport_error" \/ net.status >= 500 THEN <<req, req>> ELSE <<req>>

issue(req, net) == <<req>>

(* resp.json() on a successful response. *)
response_json_wrapped(net) ==
    LET j == json_loads(net.text)
    IN  IF j.k \in {"obj", "arr"} THEN JObj("data" :> j) ELSE j

response_json(net) == json_loads(net.text)

_request(method, path, json, auth, net) ==
    LET url == base_url \o path
        req == [method |-> method, url |-> url, json |-> json,
                headers |-> _headers(auth), timeout |-> TIMEOUT]
        wire == issue(req, net)
    IN  IF net.kind = "transport_error"
        THEN [sent |-> wire, parsed |-> FALSE,
              outcome |-> Raise("RequestException", "", 0)]
        ELSE IF ~ok(net.status)
        THEN [sent |-> wire, parsed |-> TRUE,
              outcome |-> Raise("AgentPassError", error_message(net.text), net.status)]
        ELSE IF net.status = NO_CONTENT
        THEN [sent |-> wire, parsed |-> FALSE, outcome |-> Return(None)]
        ELSE IF response_json(net) = NotJson
        THEN [sent |-> wire, parsed |-> TRUE,
              outcome |-> Raise("JSONDecodeError", "", 0)]
        ELSE [sent |-> wire, parsed |-> TRUE, outcome |-> Return(response_json(net))]

(* data[key] *)
subscript(data, key) ==
    IF data.k = "obj"
    THEN IF key \in DOMAIN data.v THEN Return(data.v[key]) ELSE Raise("KeyError", key, 0)
    ELSE Raise("TypeError", "", 0)

(* self.token = data["token"]; return self.token *)
store_token_not_stored(r) ==
    IF r.outcome.kind = "return"
    THEN [token |-> token, outcome |-> subscript(r.outcome.value, "token")]
    ELSE [token |-> token, outcome |-> r.outcome]

store_token_cleared_on_failure(r) ==
    IF r.outcome.kind = "return" /\ subscript(r.outcome.value, "token").kind = "return"
    THEN [token |-> subscript(r.outcome.value, "token").value,
          outcome |-> subscript(r.outcome.value, "token")]
    ELSE [token |-> None,
          outcome |-> IF r.outcome.kind = "return"
                      THEN subscript(r.outcome.value, "token") ELSE r.outcome]

store_token(r) ==
    IF r.outcome.kind = "return"
    THEN LET s == subscript(r.outcome.value, "token")
         IN  IF s.kind = "return"
             THEN [token |-> s.value, outcome |-> Return(s.value)]
             ELSE [token |-> token, outcome |-> s]
    ELSE [token |-> token, outcome |-> r.outcome]

-----------------------------------------------------------------------------
(* The client after AgentPassClient(base_url, token). *)

Init ==
    /\ base_url \in { rstrip(b) : b \in BaseUrlArgs }
    /\ token \in TokenArgs
    /\ op = "none"
    /\ sent = <<>>
    /\ resp = NoAnswer
    /\ parsed = FALSE
    /\ outcome = NoCall
    /\ token_before = token
    /\ last_auth = token

(* The record of a call that went through _request with result r. *)
Called(name, net, r) ==
    /\ op' = name
    /\ sent' = r.sent
    /\ resp' = net
    /\ parsed' = r.parsed
    /\ token_before' = token
    /\ base_url' = base_url

(* register and login take the token from the answer (store_token);       *)
(* last_auth follows the value the call returned.  Every other method      *)
(* returns what _request returns and assigns no field.                     *)

register ==
    \E email \in Emails, password \in Passwords, name \in Names, net \in NetOutcomes :
        LET r == _request("POST", <<"/", "auth", "/", "register">>,
                          JObj(("email" :> JStr(email)) @@ ("password" :> JStr(password))
                               @@ ("name" :> JStr(name))),
                          TRUE, net)
            res == store_token(r)
        IN  /\ Called("register", net, r)
            /\ token' = res.token
            /\ outcome' = res.outcome
            /\ last_auth' = IF res.outcome.kind = "return" THEN res.outcome.value
                            ELSE last_auth

login ==
    \E email \in Emails, password \in Passwords, net \in NetOutcomes :
        LET r == _request("POST", <<"/", "auth", "/", "login">>,
                          JObj(("email" :> JStr(email)) @@ ("password" :> JStr(password))),
                          TRUE, net)
            res == store_token(r)
        IN  /\ Called("login", net, r)
            /\ token' = res.token
            /\ outcome' = res.outcome
            /\ last_auth' = IF res.outcome.kind = "return" THEN res.outcome.value
                            ELSE last_auth

create_passport ==
    \E name \in Names, public_key \in PublicKeys, net \in NetOutcomes :
        LET r == _request("POST", <<"/", "passports">>,
                          JObj(("name" :> JStr(name)) @@ ("publicKey" :> JStr(public_key))),
                          TRUE, net)
        IN  /\ Called("create_passport", net, r)
            /\ outcome' = r.outcome
            /\ UNCHANGED <<token, last_auth>>

get_passport ==
    \E passport_id \in PassportIds, net \in NetOutcomes :
        LET r == _request("GET", <<"/", "passports", "/", passport_id>>, None, TRUE, net)
        IN  /\ Called("get_passport", net, r)
            /\ outcome' = r.outcome
            /\ UNCHANGED <<token, last_auth>>

get_public_passport ==
    \E passport_id \in PassportIds, net \in NetOutcomes :
        LET r == _request("GET", <<"/", "passports", "/", passport_id, "/", "public">>,
                          None, FALSE, net)
        IN  /\ Called("get_public_passport", net, r)
            /\ outcome' = r.outcome
            /\ UNCHANGED <<token, last_auth>>

verify ==
    \E passport_id \in PassportIds, challenge \in Challenges,
       signature \in Signatures, net \in NetOutcomes :
        LET r == _request("POST", <<"/", "passports", "/", passport_id, "/", "verify">>,
                          JObj(("challenge" :> JStr(challenge))
                               @@ ("signature" :> JStr(signature))),
                          FALSE, net)
        IN  /\ Called("verify", net, r)
            /\ outcome' = r.outcome
            /\ UNCHANGED <<token, last_auth>>

get_trust ==
    \E passport_id \in PassportIds, net \in NetOutcomes :
        LET r == _request("GET", <<"/", "passports", "/", passport_id, "/", "trust">>,
                          None, TRUE, net)
        IN  /\ Called("get_trust", net, r)
            /\ outcome' = r.outcome
            /\ UNCHANGED <<token, last_auth>>

send_message ==
    \E from_id \in PassportIds, to_id \in PassportIds, subject \in Subjects,
       body \in Bodies, net \in NetOutcomes :
        LET r == _request("POST", <<"/", "messages">>,
                          JObj(("from" :> JStr(from_id)) @@ ("to" :> JStr(to_id))
                               @@ ("subject" :> JStr(subject)) @@ ("body" :> JStr(body))),
                          TRUE, net)
        IN  /\ Called("send_message", net, r)
            /\ outcome' = r.outcome
            /\ UNCHANGED <<token, last_auth>>

get_messages ==
    \E passport_id \in PassportIds, net \in NetOutcomes :
        LET r == _request("GET", <<"/", "passports", "/", passport_id, "/", "messages">>,
                          None, TRUE, net)
        IN  /\ Called("get_messages", net, r)
            /\ outcome' = r.outcome
            /\ UNCHANGED <<token, last_auth>>

Next ==
    \/ register
    \/ login
    \/ create_passport
    \/ get_passport
    \/ get_public_passport
    \/ verify
    \/ get_trust
    \/ send_message
    \/ get_messages

Spec == Init /\ [][Next]_vars

-----------------------------------------------------------------------------
(* Vocabulary of the properties: all of it reads the record of the last    *)
(* call.                                                                   *)

AuthOps == {"register", "login"}
AuthenticatedOps ==
    {"create_passport", "get_passport", "get_trust", "send_message", "get_messages"}
PassThroughOps == {"create_passport", "get_passport", "send_message", "get_messages"}

Answered == op # "none" /\ resp.kind = "response"
Is2xx == Answered /\ 200 <= resp.status /\ resp.status < 300
Is4xx5xx == Answered /\ 400 <= resp.status /\ resp.status < 600
AnswerJson == json_loads(resp.text)
HasField(j, f) == j.k = "obj" /\ f \in DOMAIN j.v
NoAuthorization == \A i \in DOMAIN sent : "Authorization" \notin DOMAIN sent[i].headers
Bearer(i) ==
    IF "Authorization" \in DOMAIN sent[i].headers
    THEN sent[i].headers["Authorization"] ELSE "<absent>"
IsApiError == outcome.kind = "raise" /\ outcome.exc = "AgentPassError"

(* C1: when register or login is answered by a 2xx response whose JSON body *)
(* has a token field, the stored token after the call is that value and the *)
(* call returns it, whatever token the client held before.                  *)
C1_TokenFromAnswer ==
    (op \in AuthOps /\ Is2xx /\ HasField(AnswerJson, "token"))
        => /\ token = AnswerJson.v["token"]
           /\ outcome = Return(AnswerJson.v["token"])

C1_Witness ==
    /\ op = "login" /\ Is2xx
    /\ token_before = JStr("t0")
    /\ token = JStr("t1")
    /\ outcome = Return(JStr("t1"))

(* C2 as stated: an authenticated operation sends Authorization: Bearer     *)
(* <token> whenever a token is stored (the token is not None), and no       *)
(* Authorization header when none is stored.                                *)
C2_BearerWheneverSet ==
    op \in AuthenticatedOps
        => /\ token_before # None
                => \A i \in DOMAIN sent : Bearer(i) = "Bearer " \o token_before.v
           /\ token_before = None => NoAuthorization

(* C2 amended: an authenticated operation sends Authorization: Bearer       *)
(* <token> when the stored token is a non-empty string, and no              *)
(* Authorization header when no token is stored or the stored token is the  *)
(* empty string.                                                            *)
C2_BearerWhenNonEmpty ==
    op \in AuthenticatedOps
        => /\ (token_before # None /\ token_before # JStr(""))
                => \A i \in DOMAIN sent : Bearer(i) = "Bearer " \o token_before.v
           /\ (token_before = None \/ token_before = JStr("")) => NoAuthorization

C2_Witness ==
    /\ op = "create_passport"
    /\ token_before = JStr("t1")
    /\ Len(sent) = 1
    /\ Bearer(1) = "Bearer t1"

(* C3: the request of register or login never carries an Authorization      *)
(* header, also when the client holds a token.                              *)
C3_AuthCallsSendNoAuthorization == op \in AuthOps => NoAuthorization

(* C4: the request of get_public_passport never carries an Authorization    *)
(* header, with or without a stored token.                                  *)
C4_PublicPassportNoAuthorization == op = "get_public_passport" => NoAuthorization

C4_Witness ==
    /\ op = "get_public_passport"
    /\ Len(sent) = 1
    /\ token = JStr("t1")
    /\ last_auth = JStr("t1")
    /\ NoAuthorization

(* C5 as stated: every response whose status is outside 2xx makes the call  *)
(* fail with an API error carrying that status.                             *)
C5_Non2xxRaises ==
    (Answered /\ ~Is2xx)
        => IsApiError /\ outcome.status_code = resp.status

(* C5 amended: every response whose status is a 4xx or 5xx makes the call   *)
(* fail with an API error carrying that status; no value is returned.       *)
C5_ErrorStatusRaises ==
    Is4xx5xx => IsApiError /\ outcome.status_code = resp.status

C5_Witness ==
    /\ op = "get_trust"
    /\ resp.kind = "response" /\ resp.status = 401
    /\ IsApiError /\ outcome.status_code = 401

(* C6 as stated: the message of an API error is the value of the error      *)
(* field when the body is a JSON object that has it, and the raw body text  *)
(* in every other case.                                                     *)
C6_MessageIsErrorField ==
    IsApiError
        => IF HasField(AnswerJson, "error")
           THEN JStr(outcome.message) = AnswerJson.v["error"]
           ELSE outcome.message = resp.text

(* C6 amended: the message of an API error is the string form of the error  *)
(* field (the field itself when it is a string, "None" when it is null)     *)
(* when the body is a JSON object that has it, and the raw body text in     *)
(* every other case.                                                        *)
C6_MessageIsStringOfErrorField ==
    IsApiError
        => IF HasField(AnswerJson, "error")
           THEN /\ AnswerJson.v["error"].k = "str"
                    => outcome.message = AnswerJson.v["error"].v
                /\ AnswerJson.v["error"] = None => outcome.message = "None"
           ELSE outcome.message = resp.text

C6_Witness ==
    /\ IsApiError
    /\ resp.text = "{\"error\":\"Invalid credentials\"}"
    /\ outcome.message = "Invalid credentials"

(* C7: whatever the operation, a 204 answer makes the call return nothing,  *)
(* raise nothing, and leave the body unparsed.                              *)
C7_NoContentReturnsNothing ==
    (Answered /\ resp.status = NO_CONTENT)
        => outcome = Return(None) /\ ~parsed

(* C8: every call puts exactly one request on the wire; a failed response   *)
(* or a transport failure ends the call with a raised failure.              *)
C8_OneRequestPerCall ==
    op # "none"
        => /\ Len(sent) = 1
           /\ (resp.kind = "transport_error" \/ Is4xx5xx) => outcome.kind = "raise"

C8_Witness ==
    /\ op = "send_message"
    /\ resp.kind = "transport_error"
    /\ Len(sent) = 1
    /\ outcome.kind = "raise"

(* C9: create_passport, get_passport, send_message and get_messages return  *)
(* the JSON value of a 2xx answer as it is: same fields with the same       *)
(* values, and for an array the same length and the same elements in order. *)
C9_JsonReturnedUnchanged ==
    (op \in PassThroughOps /\ Is2xx /\ resp.status # NO_CONTENT
        /\ AnswerJson # NotJson)
        => /\ outcome.kind = "return"
           /\ outcome.value = AnswerJson
           /\ AnswerJson.k = "obj"
                => /\ outcome.value.k = "obj"
                   /\ DOMAIN outcome.value.v = DOMAIN AnswerJson.v
           /\ AnswerJson.k = "arr"
                => /\ outcome.value.k = "arr"
                   /\ Len(outcome.value.v) = Len(AnswerJson.v)
                   /\ \A i \in 1..Len(AnswerJson.v) :
                        outcome.value.v[i] = AnswerJson.v[i]

C9_Witness ==
    /\ op = "get_messages" /\ Is2xx
    /\ outcome.kind = "return"
    /\ outcome.value.k = "arr"
    /\ Len(outcome.value.v) = 2

(* C10: the token changes only in a register or login that returns; every   *)
(* other operation, and a register or login answered by an error status, a  *)
(* transport failure, a 204 or a body without a token field, leaves it      *)
(* unchanged; the base URL never changes; so the stored token is always the *)
(* value returned by the latest register or login that returned, or the     *)
(* constructor's token.                                                     *)
AuthAnswerUnusable ==
    \/ resp.kind = "transport_error"
    \/ Is4xx5xx
    \/ resp.status = NO_CONTENT
    \/ ~HasField(AnswerJson, "token")

====
